---- MODULE Spec2Model ----
(***************************************************************************)
(* A model of systemcheck.py: the byte formatter get_size_gb, the network  *)
(* rate calculator get_network_speed with its module-level baseline, the   *)
(* primary temperature source get_temperatures_lhm, and the main loop      *)
(* around display_system_stats.                                            *)
(*                                                                         *)
(* Numbers.  A byte count handed to get_size_gb is a natural number kept   *)
(* as its base-1024 digits, most significant first; a value of the loop is *)
(* such a number with a scale, digits / 1024^s.  The first "/= factor"     *)
(* turns the Python int into a double: the quotient is rounded to 53       *)
(* significant bits, ties to even; later divisions by 1024 are exact.  A   *)
(* network rate is kept as a reduced fraction <<n, d>> with d > 0.         *)
(* Timestamps are integer ticks.                                           *)
(***************************************************************************)
EXTENDS Integers, Sequences, FiniteSets, TLC

VARIABLES
    \* ---- get_size_gb
    size_in,            \* the argument bytes_val, as base-1024 digits
    size_out,           \* the returned text: [num, unit, suffix], num in hundredths
    size_done,          \* the call has returned
    \* ---- get_network_speed
    last_net_io,        \* module global, [sent, recv]
    last_time_net,      \* module global
    current_net_io,     \* local of the latest call, [sent, recv]
    current_time,       \* local of the latest call
    net_ret,            \* the latest call's return value
    call_base,          \* the baseline as the latest call found it, [sent, recv, t]
    net_called,         \* get_network_speed has been called at least once
    init_net_io,        \* the baseline taken at import (line 55)
    acc_sent,           \* sum over the calls of upload rate * elapsed
    acc_recv,           \* sum over the calls of download rate * elapsed
    deferred,           \* "none" | "pending" | "reported": a delta seen with elapsed 0
    \* ---- the main loop
    pc,
    screen,             \* what the terminal shows: a sequence of items
    disk_i,             \* position of the disk loop in DISKS_TO_MONITOR
    disk_results,       \* this cycle's outcome of psutil.disk_usage, per path
    libre_hw_monitor_available,
    open_handles,       \* Computer handles opened and not closed
    lhm_temps,          \* what get_temperatures_lhm returned in this cycle
    lhm_error_msg,
    lhm_reported_temps,
    lhm_calls,          \* calls of get_temperatures_lhm in this cycle
    fallback_calls,     \* calls of psutil.sensors_temperatures in this cycle
    raised,             \* the platform query that raised in the latest step, or ""
    interrupted_at      \* where the loop was when Ctrl+C arrived, or ""

size_vars == <<size_in, size_out, size_done>>
net_vars == <<last_net_io, last_time_net, current_net_io, current_time, net_ret,
              call_base, net_called, init_net_io, acc_sent, acc_recv, deferred>>
loop_vars == <<pc, screen, disk_i, disk_results, libre_hw_monitor_available,
               open_handles, lhm_temps, lhm_error_msg, lhm_reported_temps,
               lhm_calls, fallback_calls, raised, interrupted_at>>
vars == <<size_vars, net_vars, loop_vars>>

(***************************************************************************)
(* Bounds and program constants                                            *)
(***************************************************************************)
MaxDigits == 7
MaxClock == 2
MaxSensors == 2
MaxHandles == 2

factor == 1024

Units == <<"", "K", "M", "G", "T", "P">>

\* The formatter's inputs are a top digit, a second digit and equal lower
\* digits: 1536 is <<1, 512>>, 1024^4 is <<1, 0, 0, 0, 0>>, 1024^6 - 1 is six
\* digits 1023; <<1, 128>> and <<1, 384>> are ties of the two-decimal rounding.
TopDigits == {1, 1023}
NextDigits == {0, 128, 384, 512, 1023}
FillDigits == {0, 1023}

SentVals == {0, 1000, 3000}
RecvVals == {2000, 2500}
Clock == 0..MaxClock

(***************************************************************************)
(* Arithmetic helpers                                                      *)
(***************************************************************************)
RECURSIVE Pow2(_)
Pow2(r) == IF r <= 0 THEN 1 ELSE 2 * Pow2(r - 1)

\* the number of bits of a digit
RECURSIVE BitLen(_)
BitLen(x) == IF x = 0 THEN 0 ELSE 1 + BitLen(x \div 2)

\* the number of significant bits of a digit string
SigBits(d) == IF d = <<>> THEN 0 ELSE BitLen(d[1]) + 10 * (Len(d) - 1)

AllZero(d) == \A i \in 1..Len(d) : d[i] = 0

Zeros(n) == [i \in 1..n |-> 0]

\* d + a, a <= factor, with the carries
RECURSIVE AddLast(_, _)
AddLast(d, a) ==
    IF d = <<>>
    THEN (IF a = 0 THEN <<>> ELSE IF a < factor THEN <<a>> ELSE <<a \div factor, a % factor>>)
    ELSE LET sum == d[Len(d)] + a
         IN  Append(AddLast(SubSeq(d, 1, Len(d) - 1), sum \div factor), sum % factor)

\* d * k + carry for a small k
RECURSIVE MulSmall(_, _, _)
MulSmall(d, k, carry) ==
    IF d = <<>> THEN (IF carry = 0 THEN <<>> ELSE <<carry>>)
    ELSE LET p == d[Len(d)] * k + carry
         IN  Append(MulSmall(SubSeq(d, 1, Len(d) - 1), k, p \div factor), p % factor)

RECURSIVE ToInt(_)
ToInt(d) == IF d = <<>> THEN 0 ELSE ToInt(SubSeq(d, 1, Len(d) - 1)) * factor + d[Len(d)]

\* how the digits in frac, read as a fraction, compare with one half
HalfCmp(frac) ==
    IF frac = <<>> THEN -1
    ELSE IF frac[1] > factor \div 2 THEN 1
    ELSE IF frac[1] < factor \div 2 THEN -1
    ELSE IF AllZero(Tail(frac)) THEN 0 ELSE 1

\* A natural number rounded to 53 significant bits, ties to even: the
\* double nearest to it.
Round53(d) ==
    LET x == SigBits(d) - 53 IN
    IF x <= 0 THEN d
    ELSE LET q == x \div 10
             r == x % 10
             idx == Len(d) - q
             low == d[idx] % Pow2(r)
             tail == SubSeq(d, idx + 1, Len(d))
             cmp == IF r = 0 THEN HalfCmp(tail)
                    ELSE IF low > Pow2(r - 1) THEN 1
                    ELSE IF low < Pow2(r - 1) THEN -1
                    ELSE IF AllZero(tail) THEN 0 ELSE 1
             odd == (d[idx] \div Pow2(r)) % 2 = 1
             kept == Append(SubSeq(d, 1, idx - 1), d[idx] - low)
             up == cmp = 1 \/ (cmp = 0 /\ odd)
         IN  (IF up THEN AddLast(kept, Pow2(r)) ELSE kept) \o Zeros(q)

Abs(x) == IF x < 0 THEN -x ELSE x

RECURSIVE GCD(_, _)
GCD(a, b) == IF b = 0 THEN a ELSE GCD(b, a % b)

\* n / d as a reduced fraction with a positive denominator (d # 0)
Rat(n, d) ==
    LET g == GCD(Abs(n), Abs(d))
        s == IF d < 0 THEN -1 ELSE 1
    IN  <<(s * n) \div g, (s * d) \div g>>

Zero == <<0, 1>>

\* r * k for a fraction r and an integer k, as an integer (exact when r[2] divides k)
RatTimes(r, k) == (r[1] * k) \div r[2]

(***************************************************************************)
(* get_size_gb                                                             *)
(***************************************************************************)
\* a value of the loop: digits / 1024^s
Val(d, s) == [d |-> d, s |-> s]

\* bytes_val < factor: at most one digit before the point
LessThanFactor(x) == Len(x.d) - x.s <= 1

\* bytes_val /= factor: int / int is the double nearest to the quotient, and
\* a double / 1024 is exact
DivFactor(x) == Val(Round53(x.d), x.s + 1)

\* f"{bytes_val:.2f}": the number in hundredths, the value times 100 rounded
\* to the nearest integer, ties to even
Format2f(x) ==
    LET t == MulSmall(x.d, 100, 0)
        pad == Zeros(x.s - Len(t)) \o t
        n == Len(pad)
        int == ToInt(SubSeq(pad, 1, n - x.s))
        cmp == HalfCmp(SubSeq(pad, n - x.s + 1, n))
    IN  IF cmp = 1 \/ (cmp = 0 /\ int % 2 = 1) THEN int + 1 ELSE int

SizeText(x, unit) == [num |-> Format2f(x), unit |-> unit, suffix |-> "B"]

\* the for loop of get_size_gb from unit index i on, and the return after it
RECURSIVE SizeLoop(_, _)
SizeLoop(x, i) ==
    IF i > Len(Units) THEN SizeText(x, "P")
    ELSE IF LessThanFactor(x) THEN SizeText(x, Units[i])
    ELSE SizeLoop(DivFactor(x), i + 1)

get_size_gb(bytes_val) == SizeLoop(Val(bytes_val, 0), 1)

NoText == [num |-> 0, unit |-> "", suffix |-> ""]

\* the inputs: 0, the one-digit numbers, and top, next and fill digits
SizeInputs ==
    {<<>>} \cup {<<t>> : t \in TopDigits}
    \cup UNION {{<<t, n>> \o [i \in 1..k |-> f] : t \in TopDigits, n \in NextDigits,
                                                  f \in FillDigits} :
                  k \in 0..(MaxDigits - 2)}

InitSize ==
    /\ size_in \in SizeInputs
    /\ size_out = NoText
    /\ size_done = FALSE

CallGetSize ==
    /\ ~size_done
    /\ size_out' = get_size_gb(size_in)
    /\ size_done' = TRUE
    /\ UNCHANGED size_in

(***************************************************************************)
(* get_network_speed                                                       *)
(***************************************************************************)
NetIO(s, r) == [sent |-> s, recv |-> r]

\* get_network_speed returning the byte deltas undivided
NetworkSpeedUndivided(last_io, last_t, cur_io, now) ==
    LET elapsed_time == now - last_t IN
    IF elapsed_time = 0
    THEN [ret |-> <<Zero, Zero, cur_io.sent, cur_io.recv>>,
          io |-> last_io, t |-> last_t]
    ELSE [ret |-> <<Rat(cur_io.sent - last_io.sent, 1),
                    Rat(cur_io.recv - last_io.recv, 1),
                    cur_io.sent, cur_io.recv>>,
          io |-> cur_io, t |-> now]

\* get_network_speed forgetting to store the timestamp
NetworkSpeedStaleTime(last_io, last_t, cur_io, now) ==
    LET elapsed_time == now - last_t IN
    IF elapsed_time = 0
    THEN [ret |-> <<Zero, Zero, cur_io.sent, cur_io.recv>>,
          io |-> last_io, t |-> last_t]
    ELSE [ret |-> <<Rat(cur_io.sent - last_io.sent, elapsed_time),
                    Rat(cur_io.recv - last_io.recv, elapsed_time),
                    cur_io.sent, cur_io.recv>>,
          io |-> cur_io, t |-> last_t]

\* get_network_speed storing the counters before its early return
NetworkSpeedOverwriteOnZero(last_io, last_t, cur_io, now) ==
    LET elapsed_time == now - last_t IN
    IF elapsed_time = 0
    THEN [ret |-> <<Zero, Zero, cur_io.sent, cur_io.recv>>,
          io |-> cur_io, t |-> now]
    ELSE [ret |-> <<Rat(cur_io.sent - last_io.sent, elapsed_time),
                    Rat(cur_io.recv - last_io.recv, elapsed_time),
                    cur_io.sent, cur_io.recv>>,
          io |-> cur_io, t |-> now]

\* The body of get_network_speed on the counters and the time it reads:
\* the return value and the new value of the two globals.
NetworkSpeed(last_io, last_t, cur_io, now) ==
    LET elapsed_time == now - last_t IN
    IF elapsed_time = 0
    THEN [ret |-> <<Zero, Zero, cur_io.sent, cur_io.recv>>,
          io |-> last_io, t |-> last_t]
    ELSE [ret |-> <<Rat(cur_io.sent - last_io.sent, elapsed_time),
                    Rat(cur_io.recv - last_io.recv, elapsed_time),
                    cur_io.sent, cur_io.recv>>,
          io |-> cur_io, t |-> now]

\* One call of get_network_speed reading counters (s, r) at time now.
get_network_speed(s, r, now) ==
    LET cur == NetIO(s, r)
        res == NetworkSpeed(last_net_io, last_time_net, cur, now)
        elapsed_time == now - last_time_net
    IN  /\ current_net_io' = cur
        /\ current_time' = now
        /\ call_base' = [sent |-> last_net_io.sent, recv |-> last_net_io.recv,
                         t |-> last_time_net]
        /\ net_called' = TRUE
        /\ net_ret' = res.ret
        /\ last_net_io' = res.io
        /\ last_time_net' = res.t
        /\ acc_sent' = acc_sent + RatTimes(res.ret[1], elapsed_time)
        /\ acc_recv' = acc_recv + RatTimes(res.ret[2], elapsed_time)
        /\ deferred' = IF elapsed_time = 0
                       THEN (IF cur # last_net_io THEN "pending" ELSE deferred)
                       ELSE (IF deferred = "pending" THEN "reported" ELSE "none")
        /\ UNCHANGED init_net_io

\* lines 55-56: the baseline taken at import
InitNetOver(S, R, T) ==
    /\ last_net_io \in {NetIO(s, r) : s \in S, r \in R}
    /\ last_time_net \in T
    /\ current_net_io = last_net_io
    /\ current_time = last_time_net
    /\ net_ret = <<Zero, Zero, 0, 0>>
    /\ call_base = [sent |-> last_net_io.sent, recv |-> last_net_io.recv,
                    t |-> last_time_net]
    /\ net_called = FALSE
    /\ init_net_io = last_net_io
    /\ acc_sent = 0
    /\ acc_recv = 0
    /\ deferred = "none"

CallNetworkSpeed ==
    \E s \in SentVals, r \in RecvVals, now \in Clock : get_network_speed(s, r, now)

(***************************************************************************)
(* The terminal                                                            *)
(***************************************************************************)
Item(kind, what, info, n) == [kind |-> kind, what |-> what, info |-> info, n |-> n]

\* print(...)
Print_(scr, item) == Append(scr, item)

\* clear_screen()
clear_screen(scr) == <<>>

\* line 27-31, with the two-disk example of line 28
DISKS_TO_MONITOR == <<"C:\\", "D:\\">>

StoppedItem == Item("stopped", "", "System monitor stopped by user.", 0)

\* the handler without its clear_screen()
HandlerWithoutClear(scr) == Print_(scr, StoppedItem)

\* lines 262-264: the KeyboardInterrupt handler
KeyboardInterruptHandler(scr) == Print_(clear_screen(scr), StoppedItem)

\* lines 265-272: the handler of any other exception; the hint of lines 268-272
\* needs "LibreHardwareMonitorLib" in the message, which no psutil error carries
ExceptionHandler(scr, q) ==
    Print_(clear_screen(scr), Item("unexpected_error", q, "An unexpected error occurred", 0))

(***************************************************************************)
(* get_temperatures_lhm                                                    *)
(***************************************************************************)
\* A sensor as LibreHardwareMonitor exposes it.  Value "None" is a sensor with
\* no value; "finite" is a float reading.
Sensor(type, value) == [SensorType |-> type, Value |-> value]

SensorKinds == {Sensor("Load", "finite"), Sensor("Temperature", "None"),
                Sensor("Temperature", "finite")}

SeqsUpTo(S, n) == UNION {[1..k -> S] : k \in 0..n}

SensorLists == SeqsUpTo(SensorKinds, MaxSensors)

\* computer.Hardware: the names of the hardware items, in order (two items of
\* one model carry the same name)
HardwareLayouts == {<<>>, <<"CPU">>, <<"CPU", "GPU">>, <<"GPU", "GPU">>}

HardwareSets ==
    UNION {{[i \in 1..Len(names) |-> [Name |-> names[i], Sensors |-> ss[i]]] :
              ss \in [1..Len(names) -> SensorLists]} : names \in HardwareLayouts}

\* lines 107-114: the temperature entries of one hardware item
RECURSIVE GroupTemps(_)
GroupTemps(sensors) ==
    IF sensors = <<>> THEN <<>>
    ELSE LET sensor == Head(sensors)
             rest == GroupTemps(Tail(sensors))
         IN  IF sensor.SensorType = "Temperature"
             THEN <<[label |-> "t",
                     current |-> IF sensor.Value # "None" THEN sensor.Value ELSE "nan"]>>
                  \o rest
             ELSE rest

\* temps_data[group_name] = temps on a dict kept as a sequence in insertion order
DictPut(d, k, v) ==
    IF \E i \in 1..Len(d) : d[i].group = k
    THEN [i \in 1..Len(d) |-> IF d[i].group = k THEN [group |-> k, entries |-> v] ELSE d[i]]
    ELSE Append(d, [group |-> k, entries |-> v])

\* lines 103-116: the loop over computer.Hardware
RECURSIVE CollectTemps(_, _)
CollectTemps(hardware, temps_data) ==
    IF hardware = <<>> THEN temps_data
    ELSE LET hardware_item == Head(hardware)
             current_group_temps == GroupTemps(hardware_item.Sensors)
         IN  CollectTemps(Tail(hardware),
                          IF current_group_temps # <<>>
                          THEN DictPut(temps_data, hardware_item.Name, current_group_temps)
                          ELSE temps_data)

\* What one call does, by how it ends: "ok", "raise_before_open" (Computer()
\* or Open() raises), "raise_after_open" (Update() or a sensor read raises).
\* opened/closed count the calls of computer.Open() and computer.Close().
get_temperatures_lhm(hardware, how) ==
    IF how = "ok"
    THEN [temps |-> CollectTemps(hardware, <<>>), err |-> "", opened |-> 1, closed |-> 1]
    ELSE IF how = "raise_after_open"
    THEN [temps |-> <<>>, err |-> "Error during LibreHardwareMonitor operation",
          opened |-> 1, closed |-> 0]
    ELSE [temps |-> <<>>, err |-> "Error during LibreHardwareMonitor operation",
          opened |-> 0, closed |-> 0]

(***************************************************************************)
(* display_system_stats and the main loop                                  *)
(***************************************************************************)
\* The network samples a cycle of the loop may read: <<sent, recv, time>>.
CycleSamples == {<<0, 2000, 0>>, <<1000, 2500, 1>>}

DiskOutcomes == {"ok", "FileNotFoundError", "Exception"}

\* what psutil.sensors_temperatures() may do: raise, or return groups given
\* here as the numbers of entries of each group
FallbackOutcomes == {"AttributeError", "Exception"}
FallbackData == {<<>>, <<0>>, <<1>>, <<0, 2>>}

LoopPcs == {"clear", "cpu", "mem", "disk", "net", "temp", "fallback", "sleep"}

CycleReset ==
    /\ disk_i' = 1
    /\ disk_results' = <<>>
    /\ lhm_temps' = <<>>
    /\ lhm_error_msg' = ""
    /\ lhm_reported_temps' = FALSE
    /\ lhm_calls' = 0
    /\ fallback_calls' = 0

cycle_vars == <<disk_i, disk_results, lhm_temps, lhm_error_msg, lhm_reported_temps,
                lhm_calls, fallback_calls>>

IdleSize ==
    /\ size_in = <<>>
    /\ size_out = NoText
    /\ size_done = TRUE

Init ==
    /\ IdleSize
    /\ InitNetOver({0}, {2000}, {0})
    /\ pc = "startup"
    /\ screen = <<>>
    /\ disk_i = 1
    /\ disk_results = <<>>
    /\ libre_hw_monitor_available \in BOOLEAN
    /\ open_handles = 0
    /\ lhm_temps = <<>>
    /\ lhm_error_msg = ""
    /\ lhm_reported_temps = FALSE
    /\ lhm_calls = 0
    /\ fallback_calls = 0
    /\ raised = ""
    /\ interrupted_at = ""

\* lines 265-272 reached from a query q of the cycle that raised
Abort(q) ==
    /\ screen' = ExceptionHandler(screen, q)
    /\ pc' = "exited"
    /\ raised' = q
    /\ UNCHANGED <<size_vars, net_vars, cycle_vars, libre_hw_monitor_available,
                   open_handles, interrupted_at>>

\* lines 252-254, before the try: psutil.cpu_percent(interval=0.1), the
\* calibration call of get_network_speed, the short sleep.  An exception here
\* has no handler.
Startup ==
    /\ pc = "startup"
    /\ \/ /\ \E smp \in CycleSamples : get_network_speed(smp[1], smp[2], smp[3])
          /\ pc' = "clear"
          /\ UNCHANGED <<screen, raised>>
       \/ /\ pc' = "crashed"
          /\ screen' = Print_(screen, Item("traceback", "startup", "", 0))
          /\ raised' = "startup"
          /\ UNCHANGED net_vars
    /\ UNCHANGED <<size_vars, cycle_vars, libre_hw_monitor_available, open_handles,
                   interrupted_at>>

\* line 258 and lines 126-129: clear_screen() and the header
CycleBegin ==
    /\ pc = "clear"
    /\ screen' = Print_(clear_screen(screen), Item("header", "", "", 0))
    /\ pc' = "cpu"
    /\ raised' = ""
    /\ CycleReset
    /\ UNCHANGED <<size_vars, net_vars, libre_hw_monitor_available, open_handles,
                   interrupted_at>>

\* lines 132-144; cpu_percent is not inside any try of the function
CpuSection ==
    /\ pc = "cpu"
    /\ \/ \E how \in {"per_core", "aggregate"} :
            /\ screen' = Print_(screen, Item("cpu", "", how, 0))
            /\ pc' = "mem"
            /\ raised' = ""
            /\ UNCHANGED <<size_vars, net_vars, cycle_vars, libre_hw_monitor_available,
                           open_handles, interrupted_at>>
       \/ Abort("cpu_percent")

\* lines 147-156; virtual_memory and swap_memory are not inside any try
MemSection ==
    /\ pc = "mem"
    /\ \/ /\ screen' = Print_(screen, Item("memory", "", "", 0))
          /\ pc' = "disk"
          /\ raised' = ""
          /\ UNCHANGED <<size_vars, net_vars, cycle_vars, libre_hw_monitor_available,
                         open_handles, interrupted_at>>
       \/ \E q \in {"virtual_memory", "swap_memory"} : Abort(q)

\* lines 161-170: what one pass of the disk loop prints
DiskItem(disk_path, outcome) ==
    IF outcome = "ok" THEN Item("disk", disk_path, "usage", 0)
    ELSE IF outcome = "FileNotFoundError"
    THEN Item("disk", disk_path, "Not found or inaccessible.", 0)
    ELSE Item("disk", disk_path, "Error", 0)

\* the disk loop without its "except Exception" clause
DiskSectionUnguarded ==
    /\ pc = "disk"
    /\ \/ /\ \E outcome \in {"ok", "FileNotFoundError"} :
               /\ screen' = Print_(screen, DiskItem(DISKS_TO_MONITOR[disk_i], outcome))
               /\ disk_results' = Append(disk_results, outcome)
               /\ raised' = IF outcome = "ok" THEN "" ELSE "disk_usage"
          /\ disk_i' = disk_i + 1
          /\ pc' = IF disk_i = Len(DISKS_TO_MONITOR) THEN "net" ELSE "disk"
          /\ UNCHANGED <<size_vars, net_vars, libre_hw_monitor_available, open_handles,
                         lhm_temps, lhm_error_msg, lhm_reported_temps, lhm_calls,
                         fallback_calls, interrupted_at>>
       \/ Abort("disk_usage")

\* lines 160-171: one pass of the loop over DISKS_TO_MONITOR
DiskSection ==
    /\ pc = "disk"
    /\ \E outcome \in DiskOutcomes :
         /\ screen' = Print_(screen, DiskItem(DISKS_TO_MONITOR[disk_i], outcome))
         /\ disk_results' = Append(disk_results, outcome)
         /\ raised' = IF outcome = "ok" THEN "" ELSE "disk_usage"
    /\ disk_i' = disk_i + 1
    /\ pc' = IF disk_i = Len(DISKS_TO_MONITOR) THEN "net" ELSE "disk"
    /\ UNCHANGED <<size_vars, net_vars, libre_hw_monitor_available, open_handles,
                   lhm_temps, lhm_error_msg, lhm_reported_temps, lhm_calls,
                   fallback_calls, interrupted_at>>

\* lines 174-180; get_network_speed is not inside any try
NetSection ==
    /\ pc = "net"
    /\ \/ /\ \E smp \in CycleSamples : get_network_speed(smp[1], smp[2], smp[3])
          /\ screen' = Print_(screen, Item("network", "", "", 0))
          /\ pc' = "temp"
          /\ raised' = ""
          /\ UNCHANGED <<size_vars, cycle_vars, libre_hw_monitor_available,
                         open_handles, interrupted_at>>
       \/ Abort("net_io_counters")

\* line 198: isinstance(e['current'], float) and not math.isnan(e['current'])
IsValidEntry(e) == e.current # "nan"

\* the filter of lines 197-198 left out
ValidEntriesUnfiltered(entries) == entries

\* lines 197-198
ValidEntries(entries) == SelectSeq(entries, IsValidEntry)

\* lines 194-204: the groups printed, one item for each group with valid entries
RECURSIVE RenderGroups(_)
RenderGroups(temps) ==
    IF temps = <<>> THEN <<>>
    ELSE LET valid_entries_in_group == ValidEntries(Head(temps).entries)
         IN  (IF valid_entries_in_group = <<>> THEN <<>>
              ELSE <<Item("lhm_group", Head(temps).group, "readings",
                          Len(valid_entries_in_group))>>)
             \o RenderGroups(Tail(temps))

\* lines 188-209: what is printed for the result of get_temperatures_lhm
RenderPrimary(res) ==
    IF res.err # ""
    THEN <<Item("lhm", "", "Failed. Error", 0)>>
    ELSE IF res.temps = <<>>
    THEN <<Item("lhm", "", "No temperature sensors found", 0)>>
    ELSE IF RenderGroups(res.temps) # <<>> THEN RenderGroups(res.temps)
    ELSE <<Item("lhm", "", "no valid temperature values available", 0)>>

\* lines 204-207: data_printed_for_lhm
DataPrintedForLhm(res) ==
    /\ res.err = ""
    /\ res.temps # <<>>
    /\ RenderGroups(res.temps) # <<>>

\* lines 184-213: the primary source
TempPrimary ==
    /\ pc = "temp"
    /\ IF libre_hw_monitor_available
       THEN \E res \in {get_temperatures_lhm(hw, "ok") : hw \in HardwareSets}
                       \cup {get_temperatures_lhm(<<>>, how) :
                               how \in {"raise_before_open", "raise_after_open"}} :
              /\ open_handles + res.opened - res.closed <= MaxHandles
              /\ open_handles' = open_handles + res.opened - res.closed
              /\ lhm_calls' = lhm_calls + 1
              /\ lhm_temps' = res.temps
              /\ lhm_error_msg' = res.err
              /\ screen' = Print_(screen, Item("lhm", "", "Attempting", 0))
                             \o RenderPrimary(res)
              /\ lhm_reported_temps' = DataPrintedForLhm(res)
              /\ raised' = IF res.err # "" THEN "get_temperatures_lhm" ELSE ""
       ELSE /\ screen' = Print_(screen, Item("lhm", "", "not found or failed to load", 0))
            /\ UNCHANGED <<open_handles, lhm_calls, lhm_temps, lhm_error_msg,
                           lhm_reported_temps>>
            /\ raised' = ""
    /\ pc' = "fallback"
    /\ UNCHANGED <<size_vars, net_vars, disk_i, disk_results,
                   libre_hw_monitor_available, fallback_calls, interrupted_at>>

\* lines 219-238: what is printed for the groups psutil returned
RECURSIVE RenderFallbackGroups(_)
RenderFallbackGroups(data) ==
    IF data = <<>> THEN <<>>
    ELSE (IF Head(data) = 0 THEN <<>>
          ELSE <<Item("psutil_group", "", "readings", Head(data))>>)
         \o RenderFallbackGroups(Tail(data))

RenderFallback(data) ==
    IF data = <<>> THEN <<Item("psutil", "", "not found or not supported", 0)>>
    ELSE IF RenderFallbackGroups(data) # <<>> THEN RenderFallbackGroups(data)
    ELSE <<Item("psutil", "", "No specific temperature data", 0)>>

\* line 215: the guard of the fallback
FallbackWanted == ~lhm_reported_temps

\* lines 215-247 and line 260: the fallback source, the closing lines
TempFallback ==
    /\ pc = "fallback"
    /\ IF FallbackWanted
       THEN /\ fallback_calls' = fallback_calls + 1
            /\ \/ \E data \in FallbackData :
                    /\ screen' = Print_(screen, Item("psutil", "", "Attempting", 0))
                                   \o RenderFallback(data)
                                   \o <<Item("updating", "", "", 0)>>
                    /\ raised' = ""
               \/ \E exc \in FallbackOutcomes :
                    /\ screen' = Print_(screen, Item("psutil", "", "Attempting", 0))
                                   \o <<Item("psutil", "", exc, 0),
                                        Item("updating", "", "", 0)>>
                    /\ raised' = "sensors_temperatures"
       ELSE /\ screen' = Print_(screen, Item("updating", "", "", 0))
            /\ raised' = ""
            /\ UNCHANGED fallback_calls
    /\ pc' = "sleep"
    /\ UNCHANGED <<size_vars, net_vars, disk_i, disk_results,
                   libre_hw_monitor_available, open_handles, lhm_temps, lhm_error_msg,
                   lhm_reported_temps, lhm_calls, interrupted_at>>

\* line 261: time.sleep(UPDATE_INTERVAL) returns and the loop goes round
Sleep ==
    /\ pc = "sleep"
    /\ pc' = "clear"
    /\ raised' = ""
    /\ UNCHANGED <<size_vars, net_vars, screen, cycle_vars,
                   libre_hw_monitor_available, open_handles, interrupted_at>>

\* lines 262-264: Ctrl+C anywhere inside the try.  Except Exception clauses do
\* not catch it; one that arrives inside get_temperatures_lhm after Open()
\* leaves that handle open.
Interrupt ==
    /\ pc \in LoopPcs
    /\ interrupted_at' = pc
    /\ screen' = KeyboardInterruptHandler(screen)
    /\ pc' = "exited"
    /\ raised' = ""
    /\ \/ UNCHANGED open_handles
       \/ /\ pc = "temp"
          /\ libre_hw_monitor_available
          /\ open_handles < MaxHandles
          /\ open_handles' = open_handles + 1
    /\ UNCHANGED <<size_vars, net_vars, cycle_vars, libre_hw_monitor_available>>

Next ==
    \/ Startup
    \/ CycleBegin
    \/ CpuSection
    \/ MemSection
    \/ DiskSection
    \/ NetSection
    \/ TempPrimary
    \/ TempFallback
    \/ Sleep
    \/ Interrupt

Spec == Init /\ [][Next]_vars

(***************************************************************************)
(* The two pure functions alone                                            *)
(***************************************************************************)
IdleLoop ==
    /\ pc = "idle"
    /\ screen = <<>>
    /\ disk_i = 1
    /\ disk_results = <<>>
    /\ libre_hw_monitor_available = FALSE
    /\ open_handles = 0
    /\ lhm_temps = <<>>
    /\ lhm_error_msg = ""
    /\ lhm_reported_temps = FALSE
    /\ lhm_calls = 0
    /\ fallback_calls = 0
    /\ raised = ""
    /\ interrupted_at = ""

InitSizeSpec == InitSize /\ InitNetOver({0}, {2000}, {0}) /\ IdleLoop

NextSize == CallGetSize /\ UNCHANGED <<net_vars, loop_vars>>

SpecSize == InitSizeSpec /\ [][NextSize]_vars

InitNetSpec == IdleSize /\ InitNetOver(SentVals, RecvVals, Clock) /\ IdleLoop

NextNet == CallNetworkSpeed /\ UNCHANGED <<size_vars, loop_vars>>

SpecNet == InitNetSpec /\ [][NextNet]_vars

(***************************************************************************)
(* Properties                                                              *)
(***************************************************************************)
OnScreen(kinds) == \E i \in 1..Len(screen) : screen[i].kind \in kinds

\* the primary source returned at least one finite reading in this cycle
PrimaryFinite ==
    /\ libre_hw_monitor_available
    /\ lhm_calls = 1
    /\ lhm_error_msg = ""
    /\ \E i \in 1..Len(lhm_temps) :
         \E j \in 1..Len(lhm_temps[i].entries) : lhm_temps[i].entries[j].current = "finite"

\* C1: in a cycle whose temperature section has run, psutil.sensors_temperatures
\* was called exactly once if the primary source gave no finite reading (backend
\* unavailable, error, no groups, only NaN) and not at all if it gave one;
\* primary readings are on the screen exactly in the second case, and never
\* together with fallback output.
C1_FallbackIffNoPrimaryReading ==
    /\ fallback_calls <= 1
    /\ ~(OnScreen({"lhm_group"}) /\ OnScreen({"psutil", "psutil_group"}))
    /\ (~libre_hw_monitor_available) => lhm_calls = 0
    /\ pc = "sleep" =>
         /\ fallback_calls = (IF PrimaryFinite THEN 0 ELSE 1)
         /\ OnScreen({"lhm_group"}) <=> PrimaryFinite
         /\ OnScreen({"psutil", "psutil_group"}) <=> ~PrimaryFinite

\* a cycle where one group held only NaN, another a finite reading, and the
\* fallback was not called
C1_Witness ==
    /\ pc = "sleep"
    /\ fallback_calls = 0
    /\ Len(lhm_temps) = 2
    /\ \A j \in 1..Len(lhm_temps[1].entries) : lhm_temps[1].entries[j].current = "nan"
    /\ \E j \in 1..Len(lhm_temps[2].entries) : lhm_temps[2].entries[j].current = "finite"

\* the two rates of a return value, checked by cross-multiplication
RateIs(rate, diff, elapsed) == rate[2] > 0 /\ rate[1] * elapsed = diff * rate[2]

\* C2: a call that found baseline (last_sent, last_recv, last_t) and read
\* (sent, recv, now) returns upload = (sent - last_sent) / (now - last_t) and
\* download = (recv - last_recv) / (now - last_t) when now - last_t # 0 and
\* rates 0 and 0 when it is 0; the totals are the counters read.
C2_RatesAndTotals ==
    net_called =>
      LET elapsed == current_time - call_base.t IN
      /\ net_ret[3] = current_net_io.sent
      /\ net_ret[4] = current_net_io.recv
      /\ IF elapsed = 0
         THEN net_ret[1] = Zero /\ net_ret[2] = Zero
         ELSE /\ RateIs(net_ret[1], current_net_io.sent - call_base.sent, elapsed)
              /\ RateIs(net_ret[2], current_net_io.recv - call_base.recv, elapsed)

\* baseline (1000, 2000, 0), sample (3000, 2500, 2): 1000 and 250
C2_Witness ==
    /\ net_called
    /\ call_base = [sent |-> 1000, recv |-> 2000, t |-> 0]
    /\ current_net_io = NetIO(3000, 2500)
    /\ current_time = 2
    /\ net_ret = <<<<1000, 1>>, <<250, 1>>, 3000, 2500>>

\* the least number of divisions by 1024 that brings the number below 1024:
\* one for each digit after the first
LeastDivisions(d) ==
    CHOOSE k \in 0..5 : Len(d) - k <= 1 /\ \A j \in 0..(k - 1) : Len(d) - j > 1

\* C3: for an input below 1024^6 the unit printed is the one at index k of
\* (B, KB, MB, GB, TB, PB), k the least number of divisions by 1024 bringing the
\* input below 1024, and the number is input / 1024^k to two decimals; 0 gives
\* 0.00B, 1536 gives 1.50KB, 1024^4 gives 1.00TB.
C3_UnitAndNumber ==
    (size_done /\ Len(size_in) <= 6) =>
      LET k == LeastDivisions(size_in) IN
      /\ size_out = [num |-> Format2f(Val(size_in, k)), unit |-> Units[k + 1],
                     suffix |-> "B"]
      /\ size_in = <<>> => size_out = [num |-> 0, unit |-> "", suffix |-> "B"]
      /\ size_in = <<1, 512>> => size_out = [num |-> 150, unit |-> "K", suffix |-> "B"]
      /\ size_in = <<1, 0, 0, 0, 0>> =>
           size_out = [num |-> 100, unit |-> "T", suffix |-> "B"]

\* C4: for an input at or above 1024^6 the unit printed is P and the number is
\* input / 1024^5 (1024^6 printed as 1024.00PB).
C4_TopUnitScaledByFive ==
    (size_done /\ Len(size_in) > 6) =>
      size_out = [num |-> Format2f(Val(size_in, 5)), unit |-> "P", suffix |-> "B"]

DiskItems == SelectSeq(screen, LAMBDA it : it.kind = "disk")

AfterDisk == {"net", "temp", "fallback", "sleep"}

\* C5: in a cycle, each configured path gets exactly one item, in configured
\* order: its usage when the query succeeded, an error message for that path
\* when it failed; a failure leaves the loop in the disk section or moving on
\* to the network section, and a cycle that reaches its end shows every path,
\* the network section and the temperature section.
C5_OneItemPerPath ==
    /\ pc \in {"disk"} \cup AfterDisk =>
         /\ Len(DiskItems) = Len(disk_results)
         /\ \A i \in 1..Len(disk_results) :
              /\ DiskItems[i].what = DISKS_TO_MONITOR[i]
              /\ DiskItems[i].info = "usage" <=> disk_results[i] = "ok"
              /\ DiskItems[i].info \in {"Not found or inaccessible.", "Error"}
                   <=> disk_results[i] # "ok"
    /\ pc = "disk" => Len(disk_results) = disk_i - 1 /\ disk_i <= Len(DISKS_TO_MONITOR)
    /\ pc \in AfterDisk => Len(disk_results) = Len(DISKS_TO_MONITOR)
    /\ raised = "disk_usage" => pc \in {"disk", "net"}
    /\ pc = "sleep" => OnScreen({"network"}) /\ OnScreen({"lhm"}) /\ OnScreen({"updating"})

\* the first path failed, the second was reported, and the cycle reached its end
C5_Witness ==
    /\ pc = "sleep"
    /\ disk_results = <<"FileNotFoundError", "ok">>
    /\ DiskItems[2] = Item("disk", DISKS_TO_MONITOR[2], "usage", 0)
    /\ OnScreen({"network"})

\* C6: after a KeyboardInterrupt, wherever in the loop it arrived (the sleep or
\* the middle of a cycle), the loop has ended, the screen holds the termination
\* message alone, and no step of a further cycle can be taken.
C6_InterruptEndsLoop ==
    interrupted_at # "" =>
      /\ pc = "exited"
      /\ screen = <<StoppedItem>>
      /\ ~ENABLED Next

\* interrupted during the end-of-cycle sleep
C6_Witness ==
    /\ interrupted_at = "sleep"
    /\ pc = "exited"
    /\ screen = <<StoppedItem>>

CycleQueries == {"cpu_percent", "virtual_memory", "swap_memory", "disk_usage",
                 "net_io_counters", "get_temperatures_lhm", "sensors_temperatures"}

\* C7: a platform query of a cycle that raises never ends the cycle or the
\* process: the loop is still running after the step in which it raised.
C7_FailureNeverAborts == raised \in CycleQueries => pc \in LoopPcs

\* C8 as stated: after every call the stored baseline is what that call read.
C8_EveryCallOverwrites ==
    net_called => last_net_io = current_net_io /\ last_time_net = current_time

\* C8, amended: a call whose elapsed time is not 0 overwrites the stored
\* baseline with the counters and the timestamp it read; a call whose elapsed
\* time is 0 leaves the stored baseline as it found it.
C8_OverwritesUnlessElapsedZero ==
    net_called =>
      IF current_time - call_base.t # 0
      THEN last_net_io = current_net_io /\ last_time_net = current_time
      ELSE /\ last_net_io = NetIO(call_base.sent, call_base.recv)
           /\ last_time_net = call_base.t

\* a call with elapsed time 0 that read counters other than the baseline's
C8_Witness ==
    /\ net_called
    /\ current_time = call_base.t
    /\ current_net_io # NetIO(call_base.sent, call_base.recv)
    /\ last_net_io # current_net_io

\* C9: outside a call of get_temperatures_lhm no Computer handle is open while
\* the program runs.
C9_NoHandleLeftOpen == pc # "exited" => open_handles = 0

====
